---- MODULE Spec2Model ----
(***************************************************************************)
(* The indexer script scripts/build_lunr_index.mjs as a state machine.     *)
(*                                                                         *)
(* The file system (the input file out/github-docs.json and the output     *)
(* file out/github-lunr-index.json) persists from one run of the script to *)
(* the next; everything else is the state of one node process, created by  *)
(* StartRun and discarded by Exit.                                         *)
(*                                                                         *)
(* Strings are sequences of characters over the alphabet {"b","s"," "}.    *)
(* The lunr library (imported at line 3) is an external dependency; its    *)
(* builder, tokenizer and pipeline are modelled as the specification's     *)
(* data model describes them (an inverted index from stemmed tokens to     *)
(* postings keyed by the reference id).                                    *)
(***************************************************************************)
EXTENDS Integers, Sequences, FiniteSets, TLC

VARIABLES
    inFile,     \* content of out/github-docs.json
    outFile,    \* content of out/github-lunr-index.json
    pc,         \* position of the process in the script
    docs,       \* const docs (line 8), a JSON value
    i,          \* position of the for-of iterator of line 16
    builder,    \* the lunr.Builder the callback of line 11 runs on
    added,      \* the arguments of the this.add calls so far, in order
    idx,        \* const idx (line 11)
    log,        \* lines written to stdout by this process
    exitCode,   \* exit status of the process, -1 while it runs
    outBefore,  \* outFile as it was when the process started
    lastOk,     \* the last run succeeded and the input is unchanged since
    rerun       \* this run started with lastOk

vars == <<inFile, outFile, pc, docs, i, builder, added, idx, log, exitCode,
          outBefore, lastOk, rerun>>

procVars == <<pc, docs, i, builder, added, idx, log, exitCode, outBefore, rerun>>

----------------------------------------------------------------------------
(* Bounds and value pools *)

MaxDocs == 2

Sep == " "

Range(s) == {s[k] : k \in DOMAIN s}

\* JSON values of a document's fields
JNull == [t |-> "null", v |-> <<>>]
JStr(s) == [t |-> "string", v |-> s]
JArr(a) == [t |-> "array", v |-> a]

JDoc(id, title, excerpt, labels) ==
    [t |-> "object", id |-> id, title |-> title, excerpt |-> excerpt, labels |-> labels]

\* the JSON value null as an element of the document list
NullDoc == [t |-> "null", id |-> "", title |-> JNull, excerpt |-> JNull, labels |-> JNull]

DocFull == JDoc("d1", JStr(<<"b", "b", "s">>), JStr(<<"b", " ", "s">>),
                JArr(<< <<"b">>, <<"s", " ", "b">> >>))
DocEmpty == JDoc("d2", JStr(<<>>), JStr(<<>>), JArr(<<>>))
DocMissing == JDoc("d2", JNull, JNull, JNull)
DocOneLabel == JDoc("d3", JNull, JStr(<<"s">>), JArr(<< <<"b", "b", "s">> >>))

DocPool == {DocFull, DocEmpty, DocMissing, DocOneLabel, NullDoc}

DocLists == UNION {[1..n -> DocPool] : n \in 0..MaxDocs}

\* what out/github-docs.json can hold
MissingFile == [kind |-> "missing", json |-> <<>>]
MalformedFile == [kind |-> "malformed", json |-> <<>>]
NonArrayFile == [kind |-> "object", json |-> <<>>]
ArrayFile(l) == [kind |-> "array", json |-> l]

InputFiles == {MissingFile, MalformedFile, NonArrayFile} \cup {ArrayFile(l) : l \in DocLists}

\* what out/github-lunr-index.json can hold: lead is the amount of content
\* that precedes data (0 after a truncating open)
AbsentFile == [exists |-> FALSE, lead |-> 0, data |-> <<>>]
JunkFile == [exists |-> TRUE, lead |-> 1, data |-> <<>>]
EmptyFile == [exists |-> TRUE, lead |-> 0, data |-> <<>>]

Terminal == {"success", "InputError", "BuildError", "OutputError"}

----------------------------------------------------------------------------
(* The script's own expressions (lines 16-23) *)

\* JavaScript truthiness of a field value: null/undefined and "" are falsy,
\* every array (the empty one too) is truthy
Truthy(j) == j.t = "array" \/ (j.t = "string" /\ j.v # <<>>)

\* a || b
Or(a, b) == IF Truthy(a) THEN a ELSE b

\* Array.prototype.join(sep): the elements in order, sep between any two
RECURSIVE JoinFrom(_, _, _, _)
JoinFrom(arr, sep, k, acc) ==
    IF k > Len(arr) THEN acc
    ELSE JoinFrom(arr, sep, k + 1, (IF k > 1 THEN Append(acc, sep) ELSE acc) \o arr[k])

Join(arr, sep) == JoinFrom(arr, sep, 1, <<>>)

\* a placeholder title instead of the empty string
TitleOrUntitled(d) == Or(d.title, JStr(<<"b">>))

\* d.title || ""
TitleOrEmpty(d) == Or(d.title, JStr(<<>>))

\* d.excerpt || ""
ExcerptOrEmpty(d) == Or(d.excerpt, JStr(<<>>))

\* d.labels without the fallback
LabelsRaw(d) == d.labels

\* d.labels || []
LabelsOrEmpty(d) == Or(d.labels, JArr(<<>>))

\* join() without an argument separates by commas
LabelSepDefault == ","

\* line 21, the separator of the join
LabelSep == Sep

\* evaluating the object literal of lines 17-22 throws a TypeError: d is
\* null (d.id), or the value .join is called on is not an array
Throws(d) == d.t = "null" \/ LabelsOrEmpty(d).t # "array"

\* the object literal of lines 17-22
AddArg(d) ==
    [id |-> d.id,
     title |-> TitleOrEmpty(d).v,
     excerpt |-> ExcerptOrEmpty(d).v,
     labels |-> Join(LabelsOrEmpty(d).v, LabelSep)]

\* for (const d of docs) needs an iterable
Iterable(j) == j.kind = "array"

\* a loop that stops one element early
MoreDocsOffByOne == i < Len(docs.json)

\* the for-of loop of line 16 has another element to visit
MoreDocs == i <= Len(docs.json)

----------------------------------------------------------------------------
(* lunr: builder, tokenizer, pipeline *)

FieldNames(b) == Range(b.fields)

\* lunr.tokenizer: split at the separator, empty slices are no tokens
RECURSIVE Split(_, _, _)
Split(s, cur, acc) ==
    IF s = <<>> THEN (IF cur = <<>> THEN acc ELSE Append(acc, cur))
    ELSE IF Head(s) = Sep
         THEN Split(Tail(s), <<>>, IF cur = <<>> THEN acc ELSE Append(acc, cur))
         ELSE Split(Tail(s), Append(cur, Head(s)), acc)

Tokenize(s) == Split(s, <<>>, <<>>)

\* stemming normalises word forms: a plural s is dropped from a word of
\* three letters or more (ss is kept)
Stem(w) ==
    IF Len(w) >= 3 /\ w[Len(w)] = "s" /\ w[Len(w) - 1] # "s"
    THEN SubSeq(w, 1, Len(w) - 1)
    ELSE w

\* the default pipeline applied to each token
Pipeline(tokens) == [k \in DOMAIN tokens |-> Stem(tokens[k])]

\* term frequencies of one field of one document
TermFrequencies(terms) ==
    [t \in Range(terms) |-> Cardinality({k \in DOMAIN terms : terms[k] = t})]

\* new lunr.Builder: no reference key, no fields, no documents
EmptyBuilder ==
    [ref |-> "", fields |-> <<>>, documentCount |-> 0, termIndex |-> 0,
     invertedIndex |-> <<>>, fieldTermFrequencies |-> <<>>, fieldLengths |-> <<>>]

\* this.ref("id"); this.field("title"); this.field("excerpt"); this.field("labels")
Configure(b) == [b EXCEPT !.ref = "id", !.fields = <<"title", "excerpt", "labels">>]

\* the inverted index gets a posting for each term, created on first use,
\* and the document's reference under the field the term occurs in
RECURSIVE AddTerms(_, _, _, _)
AddTerms(b, docRef, f, terms) ==
    IF terms = <<>> THEN b
    ELSE LET t == Head(terms)
             b1 == IF t \in DOMAIN b.invertedIndex THEN b
                   ELSE [b EXCEPT !.invertedIndex =
                                     (t :> [index |-> b.termIndex,
                                            refs |-> [g \in FieldNames(b) |-> {}]]) @@ @,
                                  !.termIndex = @ + 1]
             b2 == [b1 EXCEPT !.invertedIndex[t].refs[f] = @ \cup {docRef}]
         IN AddTerms(b2, docRef, f, Tail(terms))

AddField(b, docRef, f, text) ==
    LET terms == Pipeline(Tokenize(text))
        b1 == [b EXCEPT !.fieldTermFrequencies = (<<docRef, f>> :> TermFrequencies(terms)) @@ @,
                        !.fieldLengths = (<<docRef, f>> :> Len(terms)) @@ @]
    IN AddTerms(b1, docRef, f, terms)

RECURSIVE AddFields(_, _, _)
AddFields(b, doc, k) ==
    IF k > Len(b.fields) THEN b
    ELSE AddFields(AddField(b, doc[b.ref], b.fields[k], doc[b.fields[k]]), doc, k + 1)

\* builder.add(doc): one more document, its fields keyed by the reference
LunrAdd(b, doc) == AddFields([b EXCEPT !.documentCount = @ + 1], doc, 1)

\* builder.build(): the index
LunrBuild(b) ==
    [fields |-> b.fields,
     documentCount |-> b.documentCount,
     fieldVectors |-> [fr \in DOMAIN b.fieldTermFrequencies |->
                          [tf |-> b.fieldTermFrequencies[fr], len |-> b.fieldLengths[fr]]],
     invertedIndex |-> b.invertedIndex,
     pipeline |-> <<"stemmer">>]

NoIndex == LunrBuild(EmptyBuilder)

\* the references (document ids) the index holds
Refs(index) == {fr[1] : fr \in DOMAIN index.fieldVectors}

\* JSON.stringify(idx), as the pieces it is written in
Serialize(index) ==
    << [fields |-> index.fields, pipeline |-> index.pipeline],
       [documentCount |-> index.documentCount, fieldVectors |-> index.fieldVectors],
       index.invertedIndex >>

\* the output file holding all of JSON.stringify(index) and nothing else
CompleteFile(index) == [exists |-> TRUE, lead |-> 0, data |-> Serialize(index)]

----------------------------------------------------------------------------
(* The process *)

NoDocs == [kind |-> "none", json |-> <<>>]

Blank ==
    /\ docs = NoDocs
    /\ i = 0
    /\ builder = EmptyBuilder
    /\ added = <<>>
    /\ idx = NoIndex
    /\ log = <<>>
    /\ exitCode = -1
    /\ outBefore = AbsentFile
    /\ rerun = FALSE

Init ==
    /\ inFile \in InputFiles
    /\ outFile \in {AbsentFile, JunkFile}
    /\ pc = "idle"
    /\ Blank
    /\ lastOk = FALSE

\* the fetch stage replaces the input file between two runs of the indexer
Fetch ==
    /\ pc = "idle"
    /\ \E new \in InputFiles \ {inFile} : inFile' = new
    /\ lastOk' = FALSE
    /\ UNCHANGED <<outFile, procVars>>

\* node scripts/build_lunr_index.mjs
StartRun ==
    /\ pc = "idle"
    /\ pc' = "read"
    /\ outBefore' = outFile
    /\ rerun' = lastOk
    /\ UNCHANGED <<inFile, outFile, docs, i, builder, added, idx, log, exitCode, lastOk>>

\* an uncaught exception ends the process with a non-zero status
Uncaught(kind) ==
    /\ pc' = kind
    /\ exitCode' = 1

\* the output opened for writing before the input is read
ReadFailsTruncating ==
    /\ Uncaught("InputError")
    /\ outFile' = EmptyFile

\* line 8 throws: nothing else of the script has run
ReadFails ==
    /\ Uncaught("InputError")
    /\ UNCHANGED outFile

\* line 8, readFileSync or JSON.parse throws
ReadParseThrows ==
    /\ pc = "read"
    /\ inFile.kind \in {"missing", "malformed"}
    /\ ReadFails
    /\ UNCHANGED <<inFile, docs, i, builder, added, idx, log, outBefore, lastOk, rerun>>

\* line 8
ReadParse ==
    /\ pc = "read"
    /\ inFile.kind \notin {"missing", "malformed"}
    /\ docs' = inFile
    /\ pc' = "callback"
    /\ UNCHANGED <<inFile, outFile, i, builder, added, idx, log, exitCode, outBefore,
                   lastOk, rerun>>

\* a builder that starts from the index the output file holds
NewBuilderMerged ==
    IF outFile.exists /\ outFile.lead = 0 /\ Len(outFile.data) = Len(Serialize(NoIndex))
    THEN [EmptyBuilder EXCEPT
            !.documentCount = outFile.data[2].documentCount,
            !.termIndex = Cardinality(DOMAIN outFile.data[3]),
            !.invertedIndex = outFile.data[3],
            !.fieldTermFrequencies =
                [fr \in DOMAIN outFile.data[2].fieldVectors |->
                    outFile.data[2].fieldVectors[fr].tf],
            !.fieldLengths =
                [fr \in DOMAIN outFile.data[2].fieldVectors |->
                    outFile.data[2].fieldVectors[fr].len]]
    ELSE EmptyBuilder

\* line 11: every call of lunr() builds on a new builder
NewBuilder == EmptyBuilder

\* lines 11-15: lunr() creates a builder and the callback configures it
LunrCallback ==
    /\ pc = "callback"
    /\ builder' = Configure(NewBuilder)
    /\ i' = 1
    /\ pc' = "loop"
    /\ UNCHANGED <<inFile, outFile, docs, added, idx, log, exitCode, outBefore,
                   lastOk, rerun>>

\* lines 16-23, one iteration
AddDoc ==
    /\ pc = "loop"
    /\ Iterable(docs)
    /\ MoreDocs
    /\ ~Throws(docs.json[i])
    /\ added' = Append(added, AddArg(docs.json[i]))
    /\ builder' = LunrAdd(builder, AddArg(docs.json[i]))
    /\ i' = i + 1
    /\ UNCHANGED <<inFile, outFile, pc, docs, idx, log, exitCode, outBefore, lastOk, rerun>>

\* lines 16-23 throw a TypeError: docs is not iterable, or an element is
LoopThrows ==
    /\ pc = "loop"
    /\ \/ ~Iterable(docs)
       \/ MoreDocs /\ Throws(docs.json[i])
    /\ Uncaught("BuildError")
    /\ UNCHANGED <<inFile, outFile, docs, i, builder, added, idx, log, outBefore,
                   lastOk, rerun>>

\* line 24: the callback returns and lunr() builds the index
Build ==
    /\ pc = "loop"
    /\ Iterable(docs)
    /\ ~MoreDocs
    /\ idx' = LunrBuild(builder)
    /\ pc' = "write"
    /\ UNCHANGED <<inFile, outFile, docs, i, builder, added, log, exitCode, outBefore,
                   lastOk, rerun>>

\* an open with flag "a": the content stays and the data goes after it
OpenedAppend(old) == IF old.exists THEN old ELSE EmptyFile

\* writeFileSync opens with flag "w": the file is created or truncated
Opened(old) == EmptyFile

\* the first k pieces of data have reached the opened file f
Written(f, data, k) == [f EXCEPT !.data = @ \o SubSeq(data, 1, k)]

\* the error of the write caught and ignored
WriteSwallowed ==
    /\ pc' = "log"
    /\ UNCHANGED exitCode

\* line 26 throws
WriteThrows == Uncaught("OutputError")

\* line 26, the open fails (the path is unwritable): the file is untouched
WriteOpenThrows ==
    /\ pc = "write"
    /\ WriteThrows
    /\ UNCHANGED <<inFile, outFile, docs, i, builder, added, idx, log, outBefore,
                   lastOk, rerun>>

\* line 26, a write fails after the open (the device is full, an I/O error)
WriteBreaks ==
    /\ pc = "write"
    /\ \E k \in 0..(Len(Serialize(idx)) - 1) :
            outFile' = Written(Opened(outFile), Serialize(idx), k)
    /\ WriteThrows
    /\ UNCHANGED <<inFile, docs, i, builder, added, idx, log, outBefore, lastOk, rerun>>

\* line 26
WriteFile ==
    /\ pc = "write"
    /\ outFile' = Written(Opened(outFile), Serialize(idx), Len(Serialize(idx)))
    /\ pc' = "log"
    /\ UNCHANGED <<inFile, docs, i, builder, added, idx, log, exitCode, outBefore,
                   lastOk, rerun>>

\* line 27, and the script ends
Log ==
    /\ pc = "log"
    /\ log' = Append(log, Len(docs.json))
    /\ pc' = "success"
    /\ exitCode' = 0
    /\ UNCHANGED <<inFile, outFile, docs, i, builder, added, idx, outBefore, lastOk, rerun>>

\* the process is gone; the files stay
Exit ==
    /\ pc \in Terminal
    /\ pc' = "idle"
    /\ lastOk' = (pc = "success")
    /\ docs' = NoDocs
    /\ i' = 0
    /\ builder' = EmptyBuilder
    /\ added' = <<>>
    /\ idx' = NoIndex
    /\ log' = <<>>
    /\ exitCode' = -1
    /\ outBefore' = AbsentFile
    /\ rerun' = FALSE
    /\ UNCHANGED <<inFile, outFile>>

Next ==
    \/ Fetch
    \/ StartRun
    \/ ReadParseThrows
    \/ ReadParse
    \/ LunrCallback
    \/ AddDoc
    \/ LoopThrows
    \/ Build
    \/ WriteOpenThrows
    \/ WriteBreaks
    \/ WriteFile
    \/ Log
    \/ Exit

Spec == Init /\ [][Next]_vars

----------------------------------------------------------------------------
(* Properties *)

\* the index built from a document list by a builder that starts empty
RECURSIVE BuildFrom(_, _, _)
BuildFrom(b, list, k) ==
    IF k > Len(list) THEN LunrBuild(b)
    ELSE BuildFrom(LunrAdd(b, AddArg(list[k])), list, k + 1)

Expected(list) == BuildFrom(Configure(EmptyBuilder), list, 1)

IdsOf(list) == {list[k].id : k \in DOMAIN list}

DistinctIds(list) == \A j, k \in DOMAIN list : j # k => list[j].id # list[k].id

\* the output file holds a whole serialized index
IsComplete(f) == f.exists /\ f.lead = 0 /\ Len(f.data) = Len(Serialize(NoIndex))

\* the references of the index a complete output file holds
FileRefs(f) == {fr[1] : fr \in DOMAIN f.data[2].fieldVectors}

BadInput == inFile.kind \in {"missing", "malformed"}

\* C1 as stated: after a successful run the references of the written index
\* are the ids of the input list and there are as many of them as documents.
C1_EveryDocOneRef ==
    pc = "success" =>
        /\ IsComplete(outFile)
        /\ FileRefs(outFile) = IdsOf(docs.json)
        /\ Cardinality(FileRefs(outFile)) = Len(docs.json)

\* C1 amended: the same for every input list whose ids are pairwise distinct;
\* in every case each document's id is a reference of the index with a
\* vector for each of the three fields.
C1_DistinctDocsOneRefEach ==
    pc = "success" =>
        /\ IsComplete(outFile)
        /\ FileRefs(outFile) = IdsOf(docs.json)
        /\ \A k \in DOMAIN docs.json : \A f \in {"title", "excerpt", "labels"} :
              <<docs.json[k].id, f>> \in DOMAIN outFile.data[2].fieldVectors
        /\ outFile.data[2].documentCount = Len(docs.json)
        /\ DistinctIds(docs.json) =>
              /\ Cardinality(FileRefs(outFile)) = Len(docs.json)
              /\ Cardinality(DOMAIN outFile.data[2].fieldVectors) = 3 * Len(docs.json)

C1_Witness ==
    /\ pc = "success"
    /\ Len(docs.json) = 2
    /\ DistinctIds(docs.json)

\* C2: with the input file missing or malformed the run goes from the read
\* to InputError with a non-zero exit status and the output file as it was
\* when the run started; the output file changes only after the input has
\* been read and parsed.
C2_InputErrorLeavesOutput ==
    /\ (pc # "idle" /\ BadInput) => pc \in {"read", "InputError"}
    /\ pc = "InputError" => (BadInput /\ exitCode # 0 /\ outFile = outBefore)
    /\ (pc # "idle" /\ outFile # outBefore) => (docs = inFile /\ ~BadInput)

C2_Witness ==
    /\ pc = "InputError"
    /\ inFile.kind = "malformed"
    /\ IsComplete(outBefore)

\* C3: in every terminal state the output file is as it was before the run
\* or holds the complete serialized index of the current input.
C3_NoPartialOutput ==
    pc \in Terminal => (outFile = outBefore \/ outFile = CompleteFile(idx))

\* C4: a run that succeeds right after a successful run on the same,
\* unchanged input leaves the output file byte for byte as it found it.
C4_Idempotent ==
    (pc = "success" /\ rerun) => outFile = outBefore

C4_Witness ==
    /\ pc = "success"
    /\ rerun
    /\ Len(docs.json) = 2
    /\ idx.invertedIndex # <<>>

\* C6: a document with empty title, excerpt and labels has its id among the
\* references of the index, and the inverted index is the one built from
\* the list without that document.
IsEmptyDoc(d) ==
    /\ d.t = "object"
    /\ d.title = JStr(<<>>)
    /\ d.excerpt = JStr(<<>>)
    /\ d.labels = JArr(<<>>)

Without(list, k) == SubSeq(list, 1, k - 1) \o SubSeq(list, k + 1, Len(list))

C6_EmptyDocNoPostings ==
    pc \in {"write", "log", "success", "OutputError"} =>
        \A k \in DOMAIN docs.json :
            IsEmptyDoc(docs.json[k]) =>
                /\ docs.json[k].id \in Refs(idx)
                /\ idx.fieldVectors[<<docs.json[k].id, "title">>].len = 0
                /\ idx.invertedIndex = Expected(Without(docs.json, k)).invertedIndex

C6_Witness ==
    /\ pc = "success"
    /\ \E k \in DOMAIN docs.json : IsEmptyDoc(docs.json[k])
    /\ idx.invertedIndex # <<>>

\* C7: a document that supplies an id and lacks title, excerpt or labels
\* never makes the build fail, and the index is the one built from the
\* list with those fields given as "" and [].
Explicit(d) ==
    [d EXCEPT !.title = IF @.t = "null" THEN JStr(<<>>) ELSE @,
              !.excerpt = IF @.t = "null" THEN JStr(<<>>) ELSE @,
              !.labels = IF @.t = "null" THEN JArr(<<>>) ELSE @]

ExplicitList(list) == [k \in DOMAIN list |-> Explicit(list[k])]

C7_MissingFieldsDefault ==
    /\ pc = "BuildError" =>
          (~Iterable(docs) \/ \E k \in DOMAIN docs.json : docs.json[k].t = "null")
    /\ pc \in {"write", "log", "success", "OutputError"} =>
          idx = Expected(ExplicitList(docs.json))

C7_Witness ==
    /\ pc = "success"
    /\ DocMissing \in Range(docs.json)
    /\ DocFull \in Range(docs.json)

\* C8: after a successful run the output file is the serialized index of
\* the document list just read, whatever the file held before the run.
C8_FullRebuild ==
    pc = "success" => outFile = CompleteFile(Expected(docs.json))

C8_Witness ==
    /\ pc = "success"
    /\ IsComplete(outBefore)
    /\ outBefore # outFile
    /\ Len(docs.json) > 0

\* C9: the builder has the reference key id and exactly the fields title,
\* excerpt and labels; the documents are added in input order, each with
\* its raw title, its raw excerpt and its labels joined by single spaces.
RECURSIVE Offset(_, _)
Offset(L, k) == IF k <= 1 THEN 0 ELSE Offset(L, k - 1) + Len(L[k - 1]) + 1

IsJoined(res, L) ==
    /\ Len(L) = 0 => res = <<>>
    /\ Len(L) = 1 => res = L[1]
    /\ Len(L) > 0 => Len(res) = Offset(L, Len(L)) + Len(L[Len(L)])
    /\ \A k \in DOMAIN L :
          /\ SubSeq(res, Offset(L, k) + 1, Offset(L, k) + Len(L[k])) = L[k]
          /\ k < Len(L) => res[Offset(L, k) + Len(L[k]) + 1] = " "

RawString(j) == IF j.t = "string" THEN j.v ELSE <<>>

RawLabels(j) == IF j.t = "array" THEN j.v ELSE <<>>

C9_FieldsRegistered ==
    /\ pc \in {"loop", "write", "log", "success", "OutputError"} =>
          /\ builder.ref = "id"
          /\ builder.fields = <<"title", "excerpt", "labels">>
    /\ pc = "loop" /\ Iterable(docs) => Len(added) = i - 1
    /\ pc \in {"write", "log", "success", "OutputError"} => Len(added) = Len(docs.json)
    /\ \A k \in DOMAIN added :
          /\ added[k].id = docs.json[k].id
          /\ added[k].title = RawString(docs.json[k].title)
          /\ added[k].excerpt = RawString(docs.json[k].excerpt)
          /\ IsJoined(added[k].labels, RawLabels(docs.json[k].labels))

C9_Witness ==
    /\ pc = "success"
    /\ docs.json = <<DocFull, DocOneLabel>>

\* C10: the count line is on stdout exactly when the run has succeeded,
\* once, with the number of documents of the input list, and the output
\* file is then completely written.
C10_LogOnlyOnSuccess ==
    /\ log = (IF pc = "success" THEN <<Len(docs.json)>> ELSE <<>>)
    /\ pc = "success" => (exitCode = 0 /\ outFile = CompleteFile(idx))
    /\ pc \in {"InputError", "BuildError", "OutputError"} => exitCode # 0

C10_Witness ==
    /\ pc = "success"
    /\ log = <<2>>

====
